---- MODULE Spec2Model ----
(***************************************************************************)
(* Layout core of morph: the constraint solver and the relaxation engine   *)
(* (backend/app/solver), the verification pipeline (backend/app/pipeline)  *)
(* and the design orchestrator (backend/app/orchestrator).                 *)
(*                                                                         *)
(* Python's None and 0 are both falsy, and every read of an optional       *)
(* dimension in the solver is a truthiness test (`if node.fixed_width:`,   *)
(* `node.max_width or canvas`), so an absent dimension is written 0.       *)
(*                                                                         *)
(* CP-SAT is taken to be a complete decision procedure within its time     *)
(* budget: solve succeeds exactly when the model has a solution, and then  *)
(* returns any one of the solutions.                                       *)
(***************************************************************************)
EXTENDS Integers, Sequences, FiniteSets, TLC

VARIABLES
    canvas_width,     \* LayoutGraph.canvas_width
    canvas_height,    \* LayoutGraph.canvas_height
    nodes,            \* LayoutGraph.nodes, in insertion order; ids are 1..Len(nodes)
    edges,            \* LayoutGraph.edges
    input_nodes,      \* the nodes the graph was constructed with
    input_edges,      \* the edge list the graph was constructed with
    max_iterations,   \* RelaxationEngine.max_iterations
    iteration,        \* loop variable of solve_with_relaxation
    relaxed_levels,   \* local of solve_with_relaxation
    adjustments,      \* local of solve_with_relaxation
    skip_priorities,  \* argument of the most recent ConstraintSolver.solve
    model_edges,      \* uids of the edges in the most recent constraint model
    attempts,         \* number of ConstraintSolver.solve calls so far
    layout,           \* SolvedLayout of the most recent solve
    result_iterations,\* RelaxationResult.iterations
    pc,               \* "init", "loop", "solved" (direct solve returned), "done"
    \* VerificationPipeline
    enable_auto_correction, \* VerificationPipeline.enable_auto_correction
    report,           \* the VerificationReport of the most recent verify
    outcomes,         \* layer -> errors its validator returned, for the validators run
    vpc,              \* "idle", "returned"
    \* DesignOrchestrator
    max_director_iterations, \* DesignOrchestrator.max_director_iterations
    max_coder_iterations,    \* DesignOrchestrator.max_coder_iterations
    state,            \* DesignOrchestrator.state
    director_iterations,     \* DesignOrchestrator.director_iterations
    coder_iterations, \* DesignOrchestrator.coder_iterations
    last_error,       \* DesignOrchestrator.last_error
    repeated_error_count,    \* DesignOrchestrator.repeated_error_count
    loop_iteration,   \* `iteration` of the loop that is running
    feedback,         \* `feedback` of the loop that is running
    previous_svg,     \* `previous_svg` of the coder loop
    result,           \* the OrchestratorResult run returned
    director_calls,   \* number of director.generate calls in this run
    coder_calls,      \* number of coder.generate calls in this run
    verify_calls,     \* number of verifier.verify calls in this run
    last_candidate,   \* the most recent SVG coder.generate produced
    verified_svgs,    \* the SVGs for which verify returned overall PASS
    opc,              \* "idle", "director_loop", "coder_loop", "renderer",
                      \* "rendering", "returned"
    \* LayoutGraph under construction
    graph_nodes,      \* LayoutGraph.nodes: id -> LayoutNode
    graph_edges,      \* LayoutGraph.edges
    graph_call,       \* the most recent call on the graph and how it ended
    \* history of the coder loop
    recent_failures,  \* remediation texts of the last three failed verifications
    fallback_appended, \* was SAFE FALLBACK appended after the most recent of them
    solved,           \* `solved` of _run_director_loop: success of the last solve
    \* DesignRefinementAgent
    agent_max_iterations, \* DesignRefinementAgent.max_iterations
    history,          \* DesignRefinementAgent.history
    agent_iteration,  \* `iteration` of the for loop of generate
    verified,         \* the SVGs verify was called on in this call, with its verdicts
    agent_outcome,    \* how generate ended: its return value or its exception
    apc               \* "idle", "loop", "returned", "raised"

solverVars == <<canvas_width, canvas_height, nodes, edges, input_nodes, input_edges,
                max_iterations, iteration, relaxed_levels, adjustments,
                skip_priorities, model_edges, attempts, layout,
                result_iterations, pc>>

verifyVars == <<enable_auto_correction, report, outcomes, vpc>>

orchVars == <<max_director_iterations, max_coder_iterations, state,
              director_iterations, coder_iterations, last_error,
              repeated_error_count, loop_iteration, feedback, previous_svg,
              result, director_calls, coder_calls, verify_calls,
              last_candidate, verified_svgs, opc, recent_failures,
              fallback_appended, solved>>

graphVars == <<graph_nodes, graph_edges, graph_call>>

agentVars == <<agent_max_iterations, history, agent_iteration, verified,
               agent_outcome, apc>>

vars == <<solverVars, verifyVars, orchVars, graphVars, agentVars>>

-----------------------------------------------------------------------------
(* ConstraintPriority, relaxation.py *)
HARD == 0
STRUCTURAL == 1
AESTHETIC == 2
Priorities == {HARD, STRUCTURAL, AESTHETIC}

(* EdgeType, layout_graph.py *)
EdgeType == {"below", "right_of", "above", "left_of",
             "align_left", "align_right", "align_center_x", "align_center_y",
             "align_top", "align_bottom", "inside", "margin"}

(* Program constants of the relaxation engine *)
DefaultMaxIterations == 5
FallbackSideMargin == 32
FallbackMinHeight == 40
FallbackMaxHeight == 80
MinMargin == 4

Max(a, b) == IF a >= b THEN a ELSE b
Min(a, b) == IF a <= b THEN a ELSE b
Or(a, b) == IF a # 0 THEN a ELSE b      \* Python's `a or b` on optional ints

(* LayoutNode / LayoutEdge records *)
LayoutNode(minw, maxw, minh, maxh, fw, fh) ==
    [min_width |-> minw, max_width |-> maxw, min_height |-> minh,
     max_height |-> maxh, fixed_width |-> fw, fixed_height |-> fh]

LayoutEdge(uid, s, t, type, value, priority) ==
    [uid |-> uid, source_id |-> s, target_id |-> t, edge_type |-> type,
     value |-> value, priority |-> priority]

-----------------------------------------------------------------------------
(* ConstraintSolver *)

(* _create_variables: the domain of one node's x, y, width, height *)
create_variables(node) ==
    LET min_w == IF node.fixed_width # 0 THEN node.fixed_width
                 ELSE Max(1, node.min_width)
        max_w == IF node.fixed_width # 0 THEN node.fixed_width
                 ELSE Min(Or(node.max_width, canvas_width), canvas_width)
        min_h == IF node.fixed_height # 0 THEN node.fixed_height
                 ELSE Max(1, node.min_height)
        max_h == IF node.fixed_height # 0 THEN node.fixed_height
                 ELSE Min(Or(node.max_height, canvas_height), canvas_height)
    IN  [x : 0..canvas_width, y : 0..canvas_height,
         width : min_w..max_w, height : min_h..max_h]

(* a boundary that bounds the right edge only *)
add_boundary_constraints_width_only(v) ==
    v.x + v.width <= canvas_width

(* _add_boundary_constraints, for one node's rectangle *)
add_boundary_constraints(v) ==
    /\ v.x + v.width <= canvas_width
    /\ v.y + v.height <= canvas_height

(* a separation whose left_of literal compares the left edges only *)
add_non_overlap_constraints_left_edges(va, vb) ==
    \/ va.x <= vb.x
    \/ vb.x + vb.width <= va.x
    \/ va.y + va.height <= vb.y
    \/ vb.y + vb.height <= va.y

(* a non-overlap constraint that lets the first rectangle contain the second *)
add_non_overlap_constraints_or_contained(va, vb) ==
    \/ va.x + va.width <= vb.x
    \/ vb.x + vb.width <= va.x
    \/ va.y + va.height <= vb.y
    \/ vb.y + vb.height <= va.y
    \/ /\ va.x <= vb.x
       /\ vb.x + vb.width <= va.x + va.width
       /\ va.y <= vb.y
       /\ vb.y + vb.height <= va.y + va.height

(* _add_non_overlap_constraints, for one pair: some separation literal holds *)
add_non_overlap_constraints(va, vb) ==
    \/ va.x + va.width <= vb.x        \* left_of
    \/ vb.x + vb.width <= va.x        \* right_of
    \/ va.y + va.height <= vb.y       \* above
    \/ vb.y + vb.height <= va.y       \* below

(* an edge test that ignores skip_priorities *)
edge_in_model_ignoring_skip(edge, skip) ==
    /\ edge.source_id \in 1..Len(nodes)
    /\ edge.target_id \in 1..Len(nodes)

(* _add_edge_constraints: is the edge part of the model? *)
edge_in_model(edge, skip) ==
    /\ edge.priority \notin skip
    /\ edge.source_id \in 1..Len(nodes)
    /\ edge.target_id \in 1..Len(nodes)

(* edge constraints that leave the margin out of the relational edges *)
add_edge_constraints_without_margin(edge, va, vb) ==
    CASE edge.edge_type = "below" ->
            va.y + va.height <= vb.y
      [] edge.edge_type = "above" ->
            vb.y + vb.height <= va.y
      [] edge.edge_type = "right_of" ->
            va.x + va.width <= vb.x
      [] edge.edge_type = "left_of" ->
            vb.x + vb.width <= va.x
      [] edge.edge_type = "align_left" ->
            va.x = vb.x
      [] edge.edge_type = "align_center_x" ->
            2 * va.x + va.width = 2 * vb.x + vb.width
      [] edge.edge_type = "align_center_y" ->
            2 * va.y + va.height = 2 * vb.y + vb.height
      [] edge.edge_type = "inside" ->
            /\ va.x <= vb.x
            /\ vb.x + vb.width <= va.x + va.width
            /\ va.y <= vb.y
            /\ vb.y + vb.height <= va.y + va.height
      [] OTHER -> TRUE

(* _add_edge_constraints: the constraint one edge contributes *)
add_edge_constraints(edge, va, vb) ==
    CASE edge.edge_type = "below" ->
            va.y + va.height + edge.value <= vb.y
      [] edge.edge_type = "above" ->
            vb.y + vb.height + edge.value <= va.y
      [] edge.edge_type = "right_of" ->
            va.x + va.width + edge.value <= vb.x
      [] edge.edge_type = "left_of" ->
            vb.x + vb.width + edge.value <= va.x
      [] edge.edge_type = "align_left" ->
            va.x = vb.x
      [] edge.edge_type = "align_center_x" ->
            2 * va.x + va.width = 2 * vb.x + vb.width
      [] edge.edge_type = "align_center_y" ->
            2 * va.y + va.height = 2 * vb.y + vb.height
      [] edge.edge_type = "inside" ->
            /\ va.x <= vb.x
            /\ vb.x + vb.width <= va.x + va.width
            /\ va.y <= vb.y
            /\ vb.y + vb.height <= va.y + va.height
      [] OTHER -> TRUE   \* align_right, align_top, align_bottom, margin: no branch

(* the rectangles of node i allowed by its domain and the canvas *)
NodeRects(i) ==
    {v \in create_variables(nodes[i]) : add_boundary_constraints(v)}

(* assignments to nodes 1..k that satisfy boundary and non-overlap *)
RECURSIVE Placements(_)
Placements(k) ==
    IF k = 0 THEN {<<>>}
    ELSE {Append(p[1], p[2]) :
            p \in {q \in Placements(k - 1) \X NodeRects(k) :
                     \A j \in 1..(k - 1) :
                        add_non_overlap_constraints(q[1][j], q[2])}}

ModelEdges(skip) ==
    {i \in 1..Len(edges) : edge_in_model(edges[i], skip)}

(* every solution of the model built by solve(skip_priorities = skip) *)
Solutions(skip) ==
    {a \in Placements(Len(nodes)) :
        \A i \in ModelEdges(skip) :
            add_edge_constraints(edges[i], a[edges[i].source_id],
                                 a[edges[i].target_id])}

SolvedLayout(success, elements) ==
    [success |-> success, elements |-> elements]

NoLayout == SolvedLayout(FALSE, <<>>)

(* ConstraintSolver.solve: the SolvedLayouts the call can return *)
solve(skip) ==
    IF Solutions(skip) = {} THEN {NoLayout}
    ELSE {SolvedLayout(TRUE, a) : a \in Solutions(skip)}

(* the edge types for which _add_edge_constraints has a branch *)
HandledEdgeTypes ==
    {"below", "above", "right_of", "left_of", "align_left",
     "align_center_x", "align_center_y", "inside"}

Description(kind, a, b) == [kind |-> kind, a |-> a, b |-> b]

(* self.constraint_info after the model of solve(skip) is built: the
   (description, priority) pairs of boundary, non-overlap and edge
   constraints *)
constraint_info(skip) ==
    {<<Description("boundary", i, 0), 0>> : i \in 1..Len(nodes)}
    \cup {<<Description("no_overlap", p[1], p[2]), 0>> :
            p \in {q \in (1..Len(nodes)) \X (1..Len(nodes)) : q[1] < q[2]}}
    \cup {<<Description("edge", edges[i].uid, 0), edges[i].priority>> :
            i \in {j \in ModelEdges(skip) :
                    edges[j].edge_type \in HandledEdgeTypes}}

(* SolvedLayout.relaxed_constraints of a successful solve(skip) *)
relaxed_constraints(skip) ==
    {ci[1] : ci \in {c \in constraint_info(skip) :
                        skip # {} /\ c[2] \in skip}}

-----------------------------------------------------------------------------
(* RelaxationEngine *)

Shrink(d) == (4 * d) \div 5       \* int(d * 0.8) for d >= 0

(* _reduce_element_sizes *)
reduce_element_sizes(ns) ==
    [i \in 1..Len(ns) |->
        [ns[i] EXCEPT
            !.max_width = IF @ # 0 THEN Shrink(@) ELSE @,
            !.max_height = IF @ # 0 THEN Shrink(@) ELSE @,
            !.fixed_width = IF @ # 0 THEN Shrink(@) ELSE @,
            !.fixed_height = IF @ # 0 THEN Shrink(@) ELSE @]]

(* _reduce_margins *)
reduce_margins(es) ==
    [i \in 1..Len(es) |->
        [es[i] EXCEPT
            !.value = IF @ > 0 THEN Max(MinMargin, @ \div 2) ELSE @]]

(* _apply_minimal_layout: the nodes *)
apply_minimal_layout_nodes(ns) ==
    LET min_height == Max(FallbackMinHeight, canvas_height \div Len(ns))
    IN  [i \in 1..Len(ns) |->
            [ns[i] EXCEPT
                !.fixed_width = canvas_width - FallbackSideMargin,
                !.fixed_height = Min(min_height, FallbackMaxHeight)]]

(* _apply_minimal_layout: the edges kept *)
apply_minimal_layout_edges(es) ==
    SelectSeq(es, LAMBDA e : e.priority = HARD)

(* a relaxation whose second step replaces the relaxed tiers *)
relaxed_levels_replaced(it, levels) ==
    CASE it = 0 -> levels \cup {AESTHETIC}
      [] it = 1 -> {STRUCTURAL}
      [] OTHER -> levels

(* the branch of solve_with_relaxation taken after a failed attempt *)
relaxed_levels_after(it, levels) ==
    CASE it = 0 -> levels \cup {AESTHETIC}
      [] it = 1 -> levels \cup {STRUCTURAL}
      [] OTHER -> levels

(* a relaxation that shrinks the elements before dropping STRUCTURAL *)
nodes_after_shrinking_early(it, ns) ==
    CASE it = 0 -> ns
      [] it = 1 -> reduce_element_sizes(ns)
      [] it = 2 -> ns
      [] it = 3 -> ns
      [] OTHER -> apply_minimal_layout_nodes(ns)

(* a relaxation that falls back to the minimal layout one step early *)
nodes_after_fallback_early(it, ns) ==
    CASE it = 0 -> ns
      [] it = 1 -> ns
      [] it = 2 -> reduce_element_sizes(ns)
      [] OTHER -> apply_minimal_layout_nodes(ns)

nodes_after(it, ns) ==
    CASE it = 0 -> ns
      [] it = 1 -> ns
      [] it = 2 -> reduce_element_sizes(ns)
      [] it = 3 -> ns
      [] OTHER -> apply_minimal_layout_nodes(ns)

edges_after(it, es) ==
    CASE it = 0 -> es
      [] it = 1 -> es
      [] it = 2 -> es
      [] it = 3 -> reduce_margins(es)
      [] OTHER -> apply_minimal_layout_edges(es)

adjustment(it) ==
    CASE it = 0 -> "Relaxed aesthetic constraints (padding, alignment)"
      [] it = 1 -> "Relaxed structural constraints (spacing relationships)"
      [] it = 2 -> "Reduced element sizes by 20%"
      [] it = 3 -> "Reduced all margins by 50%"
      [] OTHER -> "Applied minimal fallback layout"

ModelEdgeUids(skip) == {edges[i].uid : i \in ModelEdges(skip)}

-----------------------------------------------------------------------------
(* Inputs *)

MaxNodes == 2
MaxEdges == 2

(* canvases far smaller than the fallback's fixed sizes *)
TinyCanvases == {<<3, 2>>}
(* canvases around the fallback's 32 px side margin and 40 px minimum height *)
RealCanvases == {<<33, 40>>, <<33, 39>>}

TinyNodeSpecs(cw, ch) ==
    { LayoutNode(0, 0, 0, ch, 0, 0),           \* any width, height up to the canvas
      LayoutNode(0, 0, 0, 0, cw - 1, ch - 1),  \* fixed, fits
      LayoutNode(0, 0, 0, 0, cw + 1, ch),      \* fixed, wider than the canvas
      LayoutNode(cw, 0, ch, 0, 0, 0) }         \* must fill the canvas

RealNodeSpecs(cw, ch) ==
    { LayoutNode(0, 0, 0, 0, cw + 11, ch) }    \* fixed, wider than the canvas

(* edges between nodes 1 and 2, as from_constraint_graph and add_edge build them *)
TinyEdgeCatalog ==
    << [edge_type |-> "below", value |-> 0, priority |-> STRUCTURAL],
       [edge_type |-> "above", value |-> 0, priority |-> STRUCTURAL],
       [edge_type |-> "right_of", value |-> 1, priority |-> STRUCTURAL],
       [edge_type |-> "left_of", value |-> 1, priority |-> STRUCTURAL],
       [edge_type |-> "align_left", value |-> 0, priority |-> AESTHETIC],
       [edge_type |-> "align_right", value |-> 0, priority |-> AESTHETIC],
       [edge_type |-> "align_center_x", value |-> 0, priority |-> AESTHETIC],
       [edge_type |-> "align_center_y", value |-> 0, priority |-> AESTHETIC],
       [edge_type |-> "inside", value |-> 0, priority |-> HARD],
       [edge_type |-> "right_of", value |-> 2, priority |-> HARD] >>

RealEdgeCatalog ==
    << [edge_type |-> "inside", value |-> 0, priority |-> HARD],
       [edge_type |-> "below", value |-> 9, priority |-> HARD],
       [edge_type |-> "below", value |-> 24, priority |-> STRUCTURAL],
       [edge_type |-> "align_left", value |-> 0, priority |-> AESTHETIC] >>

(* the edge lists of at most MaxEdges catalog entries, in catalog order *)
RECURSIVE Pick(_, _, _)
Pick(cat, chosen, k) ==
    IF k > Len(cat) THEN <<>>
    ELSE IF k \in chosen
         THEN <<LayoutEdge(k, 1, 2, cat[k].edge_type, cat[k].value,
                           cat[k].priority)>> \o Pick(cat, chosen, k + 1)
         ELSE Pick(cat, chosen, k + 1)

EdgeLists(cat, n) ==
    IF n < 2 THEN {<<>>}
    ELSE {Pick(cat, c, 1) :
            c \in {d \in SUBSET (1..Len(cat)) : Cardinality(d) <= MaxEdges}}

NodeLists(specs) ==
    UNION {[1..n -> specs] : n \in 1..MaxNodes}

Graph(c, ns, es) ==
    [cw |-> c[1], ch |-> c[2], nodes |-> ns, edges |-> es]

TinyGraphs ==
    UNION { { Graph(c, ns, es) :
                es \in EdgeLists(TinyEdgeCatalog, Len(ns)) } :
            <<c, ns>> \in
                UNION { {c} \X NodeLists(TinyNodeSpecs(c[1], c[2])) :
                        c \in TinyCanvases } }

RealGraphs ==
    UNION { { Graph(c, ns, es) :
                es \in EdgeLists(RealEdgeCatalog, Len(ns)) } :
            <<c, ns>> \in
                UNION { {c} \X NodeLists(RealNodeSpecs(c[1], c[2])) :
                        c \in RealCanvases } }

Graphs == TinyGraphs \cup RealGraphs

IterationBudgets == {DefaultMaxIterations}

-----------------------------------------------------------------------------
(* The solver and relaxation state machine *)

SolverInit ==
    \E g \in Graphs, budget \in IterationBudgets :
        /\ canvas_width = g.cw
        /\ canvas_height = g.ch
        /\ nodes = g.nodes
        /\ edges = g.edges
        /\ input_nodes = g.nodes
        /\ input_edges = g.edges
        /\ max_iterations = budget
        /\ iteration = 0
        /\ relaxed_levels = {}
        /\ adjustments = <<>>
        /\ skip_priorities = {}
        /\ model_edges = {}
        /\ attempts = 0
        /\ layout = NoLayout
        /\ result_iterations = 0
        /\ pc = "init"

(* RelaxationEngine(graph, max_iterations = budget) for budgets around the
   default, on the real-size graphs and the tiny graphs of at most one edge *)
BudgetChoices == 0..(DefaultMaxIterations + 1)

BudgetGraphs == RealGraphs \cup {g \in TinyGraphs : Len(g.edges) <= 1}

BudgetInit ==
    \E g \in BudgetGraphs, budget \in BudgetChoices :
        /\ canvas_width = g.cw
        /\ canvas_height = g.ch
        /\ nodes = g.nodes
        /\ edges = g.edges
        /\ input_nodes = g.nodes
        /\ input_edges = g.edges
        /\ max_iterations = budget
        /\ iteration = 0
        /\ relaxed_levels = {}
        /\ adjustments = <<>>
        /\ skip_priorities = {}
        /\ model_edges = {}
        /\ attempts = 0
        /\ layout = NoLayout
        /\ result_iterations = 0
        /\ pc = "init"

(* ConstraintSolver.solve(skip_priorities) called directly on the graph *)
ConstraintSolverSolve ==
    /\ pc = "init"
    /\ \E skip \in SUBSET Priorities :
          /\ skip_priorities' = skip
          /\ model_edges' = ModelEdgeUids(skip)
          /\ \E l \in solve(skip) : layout' = l
    /\ attempts' = attempts + 1
    /\ pc' = "solved"
    /\ UNCHANGED <<canvas_width, canvas_height, nodes, edges, input_nodes, input_edges,
                   max_iterations, iteration, relaxed_levels, adjustments,
                   result_iterations>>

(* one pass of the for loop of solve_with_relaxation *)
SolveWithRelaxationLoop ==
    /\ pc \in {"init", "loop"}
    /\ iteration < max_iterations
    /\ skip_priorities' = relaxed_levels
    /\ model_edges' = ModelEdgeUids(relaxed_levels)
    /\ attempts' = attempts + 1
    /\ \E l \in solve(relaxed_levels) :
          /\ layout' = l
          /\ IF l.success
             THEN /\ result_iterations' = iteration + 1
                  /\ pc' = "done"
                  /\ UNCHANGED <<nodes, edges, iteration, relaxed_levels,
                                 adjustments>>
             ELSE /\ relaxed_levels' = relaxed_levels_after(iteration, relaxed_levels)
                  /\ nodes' = nodes_after(iteration, nodes)
                  /\ edges' = edges_after(iteration, edges)
                  /\ adjustments' = Append(adjustments, adjustment(iteration))
                  /\ iteration' = iteration + 1
                  /\ pc' = "loop"
                  /\ UNCHANGED result_iterations
    /\ UNCHANGED <<canvas_width, canvas_height, input_nodes, input_edges,
                   max_iterations>>

(* the final attempt of solve_with_relaxation, after the loop *)
SolveWithRelaxationFinal ==
    /\ pc \in {"init", "loop"}
    /\ iteration >= max_iterations
    /\ skip_priorities' = relaxed_levels
    /\ model_edges' = ModelEdgeUids(relaxed_levels)
    /\ attempts' = attempts + 1
    /\ \E l \in solve(relaxed_levels) : layout' = l
    /\ result_iterations' = max_iterations
    /\ pc' = "done"
    /\ UNCHANGED <<canvas_width, canvas_height, nodes, edges, input_nodes, input_edges,
                   max_iterations, iteration, relaxed_levels, adjustments>>

SolverIdle ==
    /\ canvas_width = 0
    /\ canvas_height = 0
    /\ nodes = <<>>
    /\ edges = <<>>
    /\ input_nodes = <<>>
    /\ input_edges = <<>>
    /\ max_iterations = DefaultMaxIterations
    /\ iteration = 0
    /\ relaxed_levels = {}
    /\ adjustments = <<>>
    /\ skip_priorities = {}
    /\ model_edges = {}
    /\ attempts = 0
    /\ layout = NoLayout
    /\ result_iterations = 0
    /\ pc = "init"


-----------------------------------------------------------------------------
(* VerificationPipeline, pipeline/verification.py *)

LayerNames == {"syntax", "spatial", "text_readability", "color_palette", "rendering"}

(* the error messages a layer's validator can return; it passes iff it returns none *)
Vocabulary(layer) ==
    CASE layer = "syntax" -> {"parse_error"}
      [] layer = "spatial" -> {"out_of_bounds", "illegal_overlap"}
      [] layer = "text_readability" -> {"text_too_small", "low_contrast"}
      [] layer = "color_palette" -> {"color_violation"}
      [] layer = "rendering" -> {"blank_canvas", "render_artifact"}

MaxErrors == 1

ErrorLists(layer) == UNION {[1..k -> Vocabulary(layer)] : k \in 0..MaxErrors}

LayerResult(status, errors, action, prompt) ==
    [status |-> status, errors |-> errors, action |-> action,
     refinement_prompt |-> prompt, auto_corrected |-> FALSE]

PassedLayer == LayerResult("pass", <<>>, "none", "none")

(* _generate_*_prompt: the text is determined by the layer and its errors *)
generate_prompt(layer, errors) == [layer |-> layer, errors |-> errors]

NewReport ==
    [overall |-> "pass", layers |-> <<>>, needs_solver |-> FALSE,
     refinement_prompts |-> <<>>]

NewRun == [report |-> NewReport, outcomes |-> <<>>, returned |-> FALSE]

SetLayer(r, layer, layer_result) ==
    [r EXCEPT !.layers = (layer :> layer_result) @@ @]

Ran(st, layer, errors) == (layer :> errors) @@ st.outcomes

(* _try_auto_correct_spatial: every path returns False *)
try_auto_correct_spatial(errors) == FALSE

(* a Layer 1 that records its failure and lets the later layers run *)
syntax_layer_no_return(st, errors) ==
    IF errors # <<>>
    THEN LET prompt == generate_prompt("syntax", errors)
             r == SetLayer(st.report, "syntax",
                           LayerResult("fail", errors, "reject", prompt))
         IN  [report |-> [r EXCEPT !.overall = "fail",
                                   !.refinement_prompts = Append(@, prompt)],
              outcomes |-> Ran(st, "syntax", errors),
              returned |-> FALSE]
    ELSE [report |-> SetLayer(st.report, "syntax", PassedLayer),
          outcomes |-> Ran(st, "syntax", errors),
          returned |-> FALSE]

(* Layer 1: fails with REJECT and returns early *)
syntax_layer(st, errors) ==
    IF errors # <<>>
    THEN LET prompt == generate_prompt("syntax", errors)
             r == SetLayer(st.report, "syntax",
                           LayerResult("fail", errors, "reject", prompt))
         IN  [report |-> [r EXCEPT !.overall = "fail",
                                   !.refinement_prompts = Append(@, prompt)],
              outcomes |-> Ran(st, "syntax", errors),
              returned |-> TRUE]
    ELSE [report |-> SetLayer(st.report, "syntax", PassedLayer),
          outcomes |-> Ran(st, "syntax", errors),
          returned |-> FALSE]

(* Layer 2: fails with TRIGGER_SOLVER; the prompt is kept on the layer only *)
spatial_layer(st, errors, auto_correction) ==
    IF errors # <<>>
    THEN LET failed == LayerResult("fail", errors, "solver",
                                   generate_prompt("spatial", errors))
             corrected == auto_correction /\ try_auto_correct_spatial(errors)
             layer_result == IF corrected
                       THEN [failed EXCEPT !.status = "auto_corrected",
                                           !.auto_corrected = TRUE]
                       ELSE failed
             r == SetLayer(st.report, "spatial", layer_result)
         IN  [st EXCEPT !.report = [r EXCEPT !.needs_solver = ~corrected,
                                             !.overall = "fail"],
                        !.outcomes = Ran(st, "spatial", errors)]
    ELSE [st EXCEPT !.report = SetLayer(st.report, "spatial", PassedLayer),
                    !.outcomes = Ran(st, "spatial", errors)]

(* a refinement layer that records its failure but leaves overall alone *)
refinement_layer_keeps_overall(st, layer, errors) ==
    IF errors # <<>>
    THEN LET prompt == generate_prompt(layer, errors)
             r == SetLayer(st.report, layer,
                           LayerResult("fail", errors, "refinement", prompt))
         IN  [st EXCEPT !.report = [r EXCEPT !.refinement_prompts = Append(@, prompt)],
                        !.outcomes = Ran(st, layer, errors)]
    ELSE [st EXCEPT !.report = SetLayer(st.report, layer, PassedLayer),
                    !.outcomes = Ran(st, layer, errors)]

(* Layers 3, 4 and 5: fail with REFINEMENT and append their prompt *)
refinement_layer(st, layer, errors) ==
    IF errors # <<>>
    THEN LET prompt == generate_prompt(layer, errors)
             r == SetLayer(st.report, layer,
                           LayerResult("fail", errors, "refinement", prompt))
         IN  [st EXCEPT !.report = [r EXCEPT !.refinement_prompts = Append(@, prompt),
                                             !.overall = "fail"],
                        !.outcomes = Ran(st, layer, errors)]
    ELSE [st EXCEPT !.report = SetLayer(st.report, layer, PassedLayer),
                    !.outcomes = Ran(st, layer, errors)]

(* VerificationPipeline.verify of a pipeline built with the given
   enable_auto_correction, given what each validator would return *)
verify(auto_correction, syntax_errors, spatial_errors, text_errors, color_errors, render_errors) ==
    LET s1 == syntax_layer(NewRun, syntax_errors)
    IN  IF s1.returned THEN s1
        ELSE refinement_layer(
                 refinement_layer(
                     refinement_layer(spatial_layer(s1, spatial_errors,
                                                    auto_correction),
                                      "text_readability", text_errors),
                     "color_palette", color_errors),
                 "rendering", render_errors)

(* VerificationReport.get_refinement_prompt *)
get_refinement_prompt(r) ==
    IF r.refinement_prompts = <<>>
    THEN [message |-> "", prompts |-> <<>>]
    ELSE [message |-> "VALIDATION ERRORS - Please fix the following issues:",
          prompts |-> r.refinement_prompts]

VerifyIdle ==
    /\ report = NewReport
    /\ outcomes = <<>>
    /\ vpc = "idle"

VerifyInit ==
    /\ enable_auto_correction \in BOOLEAN
    /\ VerifyIdle

(* one call of VerificationPipeline.verify *)
Verify ==
    /\ \E se \in ErrorLists("syntax"), pe \in ErrorLists("spatial"),
          te \in ErrorLists("text_readability"),
          ce \in ErrorLists("color_palette"), re \in ErrorLists("rendering") :
            LET st == verify(enable_auto_correction, se, pe, te, ce, re)
            IN  /\ report' = st.report
                /\ outcomes' = st.outcomes
    /\ vpc' = "returned"
    /\ UNCHANGED enable_auto_correction

-----------------------------------------------------------------------------
(* DesignOrchestrator, orchestrator/state_machine.py *)

DefaultMaxDirectorIterations == 3
DefaultMaxCoderIterations == 5

(* an Optional value: None, or the value in a one-element sequence *)
None == <<>>
Some(value) == <<value>>

(* the SVG strings the coder can return *)
Svgs == {"svg_a", "svg_b"}

(* what the validators can return for a candidate: clean, or one error *)
CandidateErrors(layer) ==
    {<<>>, <<CHOOSE e \in Vocabulary(layer) : TRUE>>}

(* the reports of the pipeline _run_coder_verifier_loop builds, whose
   enable_auto_correction is the constructor's default *)
VerifierReports ==
    {verify(TRUE, se, pe, te, ce, re).report :
        se \in CandidateErrors("syntax"), pe \in CandidateErrors("spatial"),
        te \in CandidateErrors("text_readability"),
        ce \in CandidateErrors("color_palette"),
        re \in CandidateErrors("rendering")}

(* a feedback string that did not come from the verifier *)
Message(message) == [message |-> message, prompts |-> <<>>]

(* the feedback handed to the next generate call *)
Feedback(text, safe_fallback) ==
    Some([text |-> text, safe_fallback |-> safe_fallback])

(* a result that reports success whatever run hands it *)
OrchestratorResult_always_success(success, svg, errors, director_its, coder_its) ==
    Some([success |-> TRUE, svg |-> svg, errors |-> errors,
          director_iterations |-> director_its,
          coder_iterations |-> coder_its])

OrchestratorResult(success, svg, errors, director_its, coder_its) ==
    Some([success |-> success, svg |-> svg, errors |-> errors,
          director_iterations |-> director_its,
          coder_iterations |-> coder_its])

RepeatedErrorLimit == 2

(* a guard that fires on the first repeat *)
diminishing_returns_on_first_repeat(count) == count >= 1

(* `if self.repeated_error_count >= 2` *)
diminishing_returns(count) == count >= RepeatedErrorLimit

(* the last three entries of a sequence *)
LastThree(seq) ==
    IF Len(seq) <= 3 THEN seq ELSE SubSeq(seq, Len(seq) - 2, Len(seq))

(* `for iteration in range(n)`: the loop body runs for iteration < n *)
InRangeInclusive(i, n) == i <= n

InRange(i, n) == i < n

(* `if solved:` on the SolvedLayout dataclass instance that solve returns *)
Truthy(value) == TRUE

OrchIdle ==
    /\ max_director_iterations = DefaultMaxDirectorIterations
    /\ max_coder_iterations = DefaultMaxCoderIterations
    /\ state = "idle"
    /\ director_iterations = 0
    /\ coder_iterations = 0
    /\ last_error = None
    /\ repeated_error_count = 0
    /\ loop_iteration = 0
    /\ feedback = None
    /\ previous_svg = None
    /\ result = None
    /\ director_calls = 0
    /\ coder_calls = 0
    /\ verify_calls = 0
    /\ last_candidate = None
    /\ verified_svgs = {}
    /\ opc = "idle"
    /\ recent_failures = <<>>
    /\ fallback_appended = FALSE
    /\ solved = None

OrchInit ==
    /\ max_director_iterations \in 0..DefaultMaxDirectorIterations
    /\ max_coder_iterations \in 0..DefaultMaxCoderIterations
    /\ state = "idle"
    /\ director_iterations = 0
    /\ coder_iterations = 0
    /\ last_error = None
    /\ repeated_error_count = 0
    /\ loop_iteration = 0
    /\ feedback = None
    /\ previous_svg = None
    /\ result = None
    /\ director_calls = 0
    /\ coder_calls = 0
    /\ verify_calls = 0
    /\ last_candidate = None
    /\ verified_svgs = {}
    /\ opc = "idle"
    /\ recent_failures = <<>>
    /\ fallback_appended = FALSE
    /\ solved = None

(* run's `except Exception` *)
Raise(director_its, coder_its) ==
    /\ result' = OrchestratorResult(FALSE, None, "Orchestration error",
                                    director_its, coder_its)
    /\ opc' = "returned"

(* run: entry into _run_director_loop *)
Run ==
    /\ opc = "idle"
    /\ UNCHANGED solved
    /\ state' = "director"
    /\ feedback' = None
    /\ loop_iteration' = 0
    /\ opc' = "director_loop"
    /\ UNCHANGED <<max_director_iterations, max_coder_iterations,
                   director_iterations, coder_iterations, last_error,
                   repeated_error_count, previous_svg, result, director_calls,
                   coder_calls, verify_calls, last_candidate, verified_svgs, recent_failures, fallback_appended>>

(* one pass of the for loop of _run_director_loop; on return of a graph, run
   goes on into _run_coder_verifier_loop *)
DirectorLoop ==
    /\ opc = "director_loop"
    /\ InRange(loop_iteration, max_director_iterations)
    /\ director_iterations' = loop_iteration + 1
    /\ director_calls' = director_calls + 1
    /\ \E generated \in {"raises", "none", "graph"} :
          CASE generated = "raises" ->
                 /\ Raise(loop_iteration + 1, coder_iterations)
                 /\ UNCHANGED <<state, feedback, loop_iteration, solved>>
            [] generated = "none" ->
                 /\ feedback' = Feedback(Message("Failed to generate constraint graph"),
                                      FALSE)
                 /\ loop_iteration' = loop_iteration + 1
                 /\ UNCHANGED <<state, result, opc, solved>>
            [] generated = "graph" ->
                 \E built \in {"raises", "solved", "infeasible"} :
                    IF built = "raises"
                    THEN /\ feedback' = Feedback(Message("Layout solver error"), FALSE)
                         /\ state' = "director"
                         /\ loop_iteration' = loop_iteration + 1
                         /\ UNCHANGED <<result, opc, solved>>
                    ELSE IF Truthy(SolvedLayout(built = "solved", <<>>))
                    THEN /\ solved' = Some(built = "solved")
                         /\ state' = "coder"
                         /\ feedback' = None
                         /\ loop_iteration' = 0
                         /\ opc' = "coder_loop"
                         /\ UNCHANGED result
                    ELSE /\ solved' = Some(built = "solved")
                         /\ feedback' = Feedback(Message("solver feedback"), FALSE)
                         /\ state' = "director"
                         /\ loop_iteration' = loop_iteration + 1
                         /\ UNCHANGED <<result, opc>>
    /\ UNCHANGED <<max_director_iterations, max_coder_iterations,
                   coder_iterations, last_error, repeated_error_count,
                   previous_svg, coder_calls, verify_calls, last_candidate,
                   verified_svgs, recent_failures, fallback_appended>>

(* _run_director_loop returns None: run returns the failure result *)
DirectorExhausted ==
    /\ opc = "director_loop"
    /\ UNCHANGED solved
    /\ ~InRange(loop_iteration, max_director_iterations)
    /\ result' = OrchestratorResult(
                    FALSE, None,
                    "Design Director failed to generate valid constraint graph",
                    director_iterations, 0)
    /\ opc' = "returned"
    /\ UNCHANGED <<max_director_iterations, max_coder_iterations, state,
                   director_iterations, coder_iterations, last_error,
                   repeated_error_count, loop_iteration, feedback,
                   previous_svg, director_calls, coder_calls, verify_calls,
                   last_candidate, verified_svgs, recent_failures, fallback_appended>>

(* one pass of the for loop of _run_coder_verifier_loop; on return of an SVG,
   run goes on to _run_renderer *)
CoderLoop ==
    /\ opc = "coder_loop"
    /\ UNCHANGED solved
    /\ InRange(loop_iteration, max_coder_iterations)
    /\ coder_iterations' = loop_iteration + 1
    /\ coder_calls' = coder_calls + 1
    /\ \E generated \in {"raises", "none"} \cup Svgs :
          CASE generated = "raises" ->
                 /\ Raise(director_iterations, loop_iteration + 1)
                 /\ UNCHANGED <<state, feedback, loop_iteration, previous_svg,
                                last_error, repeated_error_count, verify_calls,
                                last_candidate, verified_svgs, recent_failures, fallback_appended>>
            [] generated = "none" ->
                 /\ feedback' = Feedback(Message("Failed to generate SVG"), FALSE)
                 /\ loop_iteration' = loop_iteration + 1
                 /\ UNCHANGED <<state, result, opc, previous_svg, last_error,
                                repeated_error_count, verify_calls,
                                last_candidate, verified_svgs, recent_failures, fallback_appended>>
            [] OTHER ->
                 /\ last_candidate' = Some(generated)
                 /\ state' = "verifier"
                 /\ verify_calls' = verify_calls + 1
                 /\ \/ /\ Raise(director_iterations, loop_iteration + 1)
                       /\ UNCHANGED <<feedback, loop_iteration, previous_svg,
                                      last_error, repeated_error_count,
                                      verified_svgs, recent_failures, fallback_appended>>
                    \/ \E verification_report \in VerifierReports :
                         LET text == get_refinement_prompt(verification_report)
                         IN  IF verification_report.overall = "pass"
                             THEN /\ verified_svgs' = verified_svgs \cup {generated}
                                  /\ UNCHANGED <<recent_failures, fallback_appended>>
                                  /\ opc' = "renderer"
                                  /\ UNCHANGED <<feedback, loop_iteration,
                                                 previous_svg, last_error,
                                                 repeated_error_count, result>>
                             ELSE /\ IF Some(text) = last_error
                                     THEN /\ repeated_error_count' =
                                                repeated_error_count + 1
                                          /\ feedback' =
                                                Feedback(text,
                                                    diminishing_returns(
                                                        repeated_error_count + 1))
                                          /\ UNCHANGED last_error
                                     ELSE /\ repeated_error_count' = 0
                                          /\ last_error' = Some(text)
                                          /\ feedback' = Feedback(text, FALSE)
                                  /\ previous_svg' = Some(generated)
                                  /\ loop_iteration' = loop_iteration + 1
                                  /\ recent_failures' =
                                        LastThree(Append(recent_failures, text))
                                  /\ fallback_appended' = feedback'[1].safe_fallback
                                  /\ UNCHANGED <<verified_svgs, result, opc>>
    /\ UNCHANGED <<max_director_iterations, max_coder_iterations,
                   director_iterations, director_calls>>

(* _run_coder_verifier_loop returns None: run returns the failure result *)
CoderExhausted ==
    /\ opc = "coder_loop"
    /\ UNCHANGED solved
    /\ ~InRange(loop_iteration, max_coder_iterations)
    /\ result' = OrchestratorResult(
                    FALSE, None, "SVG Coder failed to generate verified SVG",
                    director_iterations, coder_iterations)
    /\ opc' = "returned"
    /\ UNCHANGED <<max_director_iterations, max_coder_iterations, state,
                   director_iterations, coder_iterations, last_error,
                   repeated_error_count, loop_iteration, feedback,
                   previous_svg, director_calls, coder_calls, verify_calls,
                   last_candidate, verified_svgs, recent_failures, fallback_appended>>

(* _run_renderer up to the render call; its imports precede its try block *)
RendererStart ==
    /\ opc = "renderer"
    /\ UNCHANGED solved
    /\ \E imported \in BOOLEAN :
          IF imported
          THEN /\ state' = "renderer"
               /\ opc' = "rendering"
               /\ UNCHANGED result
          ELSE /\ Raise(director_iterations, coder_iterations)
               /\ UNCHANGED state
    /\ UNCHANGED <<max_director_iterations, max_coder_iterations,
                   director_iterations, coder_iterations, last_error,
                   repeated_error_count, loop_iteration, feedback,
                   previous_svg, director_calls, coder_calls, verify_calls,
                   last_candidate, verified_svgs, recent_failures, fallback_appended>>

(* _run_renderer: the render returned or raised; run returns success *)
RendererFinish ==
    /\ opc = "rendering"
    /\ UNCHANGED solved
    /\ state' = "completed"
    /\ result' = OrchestratorResult(TRUE, last_candidate, "",
                                    director_iterations, coder_iterations)
    /\ opc' = "returned"
    /\ UNCHANGED <<max_director_iterations, max_coder_iterations,
                   director_iterations, coder_iterations, last_error,
                   repeated_error_count, loop_iteration, feedback,
                   previous_svg, director_calls, coder_calls, verify_calls,
                   last_candidate, verified_svgs, recent_failures, fallback_appended>>

-----------------------------------------------------------------------------
(* LayoutGraph construction, solver/layout_graph.py *)

NodeIds == {"a", "b"}

(* two LayoutNode values that can be told apart *)
NodeVersions == {LayoutNode(0, 0, 0, 0, 0, 0), LayoutNode(0, 0, 0, 0, 1, 1)}

MaxGraphEdges == 2

(* the edges add_edge is called with: any endpoints, present or not *)
EdgeArguments ==
    {LayoutEdge(0, s, t, "below", 0, STRUCTURAL) : s \in NodeIds, t \in NodeIds}
      \cup {LayoutEdge(0, s, t, "inside", 0, HARD) : s \in NodeIds, t \in NodeIds}

(* LayoutGraph.add_node: self.nodes[node.id] = node *)
add_node(ns, id, node) ==
    [i \in DOMAIN ns \cup {id} |-> IF i = id THEN node ELSE ns[i]]

(* an add_edge that looks for the source only *)
add_edge_raises_source_only(ns, edge) == edge.source_id \notin DOMAIN ns

(* LayoutGraph.add_edge: the two ValueError tests *)
add_edge_raises(ns, edge) ==
    \/ edge.source_id \notin DOMAIN ns
    \/ edge.target_id \notin DOMAIN ns

(* LayoutGraph.add_edge: the edge list after the call *)
add_edge(ns, es, edge) ==
    IF add_edge_raises(ns, edge) THEN es ELSE Append(es, edge)

(* the default distance of a spacing relationship *)
DefaultDistance == 24

(* one entry of constraint_json["relationships"] *)
Relationship(type, first, second) ==
    [type |-> type, first |-> first, second |-> second]

(* from_constraint_graph: the edge a relationship stands for *)
relationship_edge(rel) ==
    CASE rel.type = "alignment" ->
            LayoutEdge(0, rel.first, rel.second, "align_left", 0, AESTHETIC)
      [] rel.type = "spacing" ->
            LayoutEdge(0, rel.first, rel.second, "below", DefaultDistance,
                       STRUCTURAL)
      [] rel.type = "containment" ->
            LayoutEdge(0, rel.first, rel.second, "inside", 0, HARD)

(* from_constraint_graph: the loop over constraint_json["elements"] *)
RECURSIVE add_elements(_, _, _)
add_elements(ns, elements, k) ==
    IF k > Len(elements) THEN ns
    ELSE add_elements(add_node(ns, elements[k].id, elements[k].node),
                      elements, k + 1)

(* from_constraint_graph: the loop over constraint_json["relationships"];
   a relationship is turned into an edge only if both ids are nodes *)
RECURSIVE add_relationships(_, _, _, _)
add_relationships(ns, es, rels, k) ==
    IF k > Len(rels) THEN es
    ELSE IF rels[k].first \in DOMAIN ns /\ rels[k].second \in DOMAIN ns
         THEN add_relationships(
                  ns, add_edge(ns, es, relationship_edge(rels[k])), rels, k + 1)
         ELSE add_relationships(ns, es, rels, k + 1)

(* LayoutGraph.from_constraint_graph: the graph it returns *)
from_constraint_graph(constraint_json) ==
    LET ns == add_elements(<<>>, constraint_json.elements, 1)
    IN  [nodes |-> ns,
         edges |-> add_relationships(ns, <<>>, constraint_json.relationships, 1)]

(* the structural descriptions: up to two elements, the second a different
   LayoutNode from the first, and up to MaxGraphEdges relationships *)
ElementLists ==
    {<<>>}
      \cup {<<[id |-> i, node |-> LayoutNode(0, 0, 0, 0, 0, 0)]>> : i \in NodeIds}
      \cup {<<[id |-> i, node |-> LayoutNode(0, 0, 0, 0, 0, 0)],
              [id |-> j, node |-> LayoutNode(0, 0, 0, 0, 1, 1)]>> :
                i \in NodeIds, j \in NodeIds}

Relationships ==
    {Relationship(type, first, second) :
        type \in {"alignment", "spacing", "containment"},
        first \in NodeIds, second \in NodeIds}

RelationshipLists ==
    UNION {[1..k -> Relationships] : k \in 0..MaxGraphEdges}

ConstraintGraphs ==
    [elements : ElementLists, relationships : RelationshipLists]

GraphIdle ==
    /\ graph_nodes = <<>>
    /\ graph_edges = <<>>
    /\ graph_call = [op |-> "init", raised |-> FALSE]

(* graph.add_node(node) *)
AddNode ==
    \E id \in NodeIds, node \in NodeVersions :
        /\ graph_nodes' = add_node(graph_nodes, id, node)
        /\ graph_call' =
              [op |-> "add_node", raised |-> FALSE, id |-> id,
               duplicate |-> id \in DOMAIN graph_nodes,
               previous |-> IF id \in DOMAIN graph_nodes
                            THEN <<graph_nodes[id]>> ELSE <<>>]
        /\ UNCHANGED graph_edges

(* graph.add_edge(edge) *)
AddEdge ==
    /\ Len(graph_edges) < MaxGraphEdges
    /\ \E edge \in EdgeArguments :
        /\ graph_edges' = add_edge(graph_nodes, graph_edges, edge)
        /\ graph_call' =
              [op |-> "add_edge",
               raised |-> add_edge_raises(graph_nodes, edge),
               edge |-> edge]
        /\ UNCHANGED graph_nodes

(* graph = LayoutGraph.from_constraint_graph(constraint_json) *)
FromConstraintGraph ==
    /\ graph_call.op = "init"
    /\ \E constraint_json \in ConstraintGraphs :
        LET graph == from_constraint_graph(constraint_json)
        IN  /\ graph_nodes' = graph.nodes
            /\ graph_edges' = graph.edges
            /\ graph_call' = [op |-> "from_constraint_graph", raised |-> FALSE,
                              input |-> constraint_json]

-----------------------------------------------------------------------------
(* DesignRefinementAgent.generate *)

DefaultAgentMaxIterations == 5

AgentIterationBudgets == {1, 2, 3, DefaultAgentMaxIterations}

GenerationHistory(it, status, errors, svg) ==
    [iteration |-> it, status |-> status, errors |-> errors, svg |-> svg]

(* what one LLM call can give: an exception, or a response with or without a
   constraint graph section and with or without an SVG *)
LlmResponses ==
    {[raised |-> TRUE, constraint_graph |-> "absent", svg |-> None]}
    \cup [raised : {FALSE},
          constraint_graph : {"absent", "valid", "invalid"},
          svg : {None} \cup {Some(s) : s \in Svgs}]

(* `for layer, (_, errors) in verification_report.layers.items()`: every
   value of layers is a LayerResult, a dataclass that cannot be unpacked, so
   the comprehension raises TypeError as soon as layers has an entry *)
history_errors_raises(r) == DOMAIN r.layers # {}

(* the same layers read by attribute *)
history_errors(r) == [layer \in DOMAIN r.layers |-> r.layers[layer].errors]

(* the exhaustion path: the last history entry that has an svg *)
best_attempt(h) ==
    LET with_svg == {i \in 1..Len(h) : h[i].svg # None}
    IN  IF with_svg = {} THEN None
        ELSE Some(h[CHOOSE i \in with_svg : \A j \in with_svg : j <= i])

AgentReturn(svg, overall, iterations) ==
    Some([kind |-> "return", error |-> "none", svg |-> Some(svg),
          overall |-> overall, iterations |-> iterations])

AgentRaise(error) ==
    Some([kind |-> "raise", error |-> error, svg |-> None,
          overall |-> "none", iterations |-> 0])

AgentIdle ==
    /\ agent_max_iterations = DefaultAgentMaxIterations
    /\ history = <<>>
    /\ agent_iteration = 0
    /\ verified = <<>>
    /\ agent_outcome = None
    /\ apc = "idle"

AgentInit ==
    /\ agent_max_iterations \in AgentIterationBudgets
    /\ history = <<>>
    /\ agent_iteration = 0
    /\ verified = <<>>
    /\ agent_outcome = None
    /\ apc = "idle"

(* generate is called and reaches its for loop *)
AgentGenerate ==
    /\ apc = "idle"
    /\ apc' = "loop"
    /\ agent_iteration' = 0
    /\ UNCHANGED <<agent_max_iterations, history, verified, agent_outcome>>

(* one pass of the for loop of generate *)
AgentIteration ==
    /\ apc = "loop"
    /\ agent_iteration < agent_max_iterations
    /\ \E response \in LlmResponses :
        IF response.raised
        THEN /\ agent_outcome' = AgentRaise("LLMError")
             /\ apc' = "raised"
             /\ UNCHANGED <<history, agent_iteration, verified>>
        ELSE IF response.constraint_graph = "invalid"
        THEN /\ history' = Append(history,
                    GenerationHistory(agent_iteration, "failed",
                                      "constraint_graph", None))
             /\ agent_iteration' = agent_iteration + 1
             /\ UNCHANGED <<verified, agent_outcome, apc>>
        ELSE IF response.svg = None
        THEN /\ history' = Append(history,
                    GenerationHistory(agent_iteration, "failed",
                                      "svg_generation", None))
             /\ agent_iteration' = agent_iteration + 1
             /\ UNCHANGED <<verified, agent_outcome, apc>>
        ELSE \E verification_report \in VerifierReports :
             /\ verified' = Append(verified,
                    [svg |-> response.svg[1],
                     overall |-> verification_report.overall])
             /\ IF history_errors_raises(verification_report)
                THEN /\ agent_outcome' = AgentRaise("TypeError")
                     /\ apc' = "raised"
                     /\ UNCHANGED <<history, agent_iteration>>
                ELSE /\ history' = Append(history,
                            GenerationHistory(agent_iteration,
                                verification_report.overall,
                                history_errors(verification_report),
                                response.svg))
                     /\ IF verification_report.overall = "pass"
                        THEN /\ agent_outcome' =
                                    AgentReturn(response.svg[1], "pass",
                                                agent_iteration + 1)
                             /\ apc' = "returned"
                             /\ UNCHANGED agent_iteration
                        ELSE /\ agent_iteration' = agent_iteration + 1
                             /\ UNCHANGED <<agent_outcome, apc>>
    /\ UNCHANGED agent_max_iterations

(* the loop ran max_iterations times: return the best attempt or raise *)
AgentExhausted ==
    /\ apc = "loop"
    /\ agent_iteration >= agent_max_iterations
    /\ LET best == best_attempt(history)
       IN  IF best # None
           THEN /\ agent_outcome' =
                       AgentReturn(best[1].svg[1], "partial",
                                   agent_max_iterations)
                /\ apc' = "returned"
           ELSE /\ agent_outcome' = AgentRaise("DesignGenerationError")
                /\ apc' = "raised"
    /\ UNCHANGED <<agent_max_iterations, history, agent_iteration, verified>>

-----------------------------------------------------------------------------
(* Specifications: each component runs on its own *)

Init ==
    /\ SolverInit
    /\ enable_auto_correction = TRUE
    /\ VerifyIdle
    /\ OrchIdle
    /\ GraphIdle
    /\ AgentIdle

Next ==
    \/ ConstraintSolverSolve /\ UNCHANGED <<verifyVars, orchVars, graphVars, agentVars>>
    \/ SolveWithRelaxationLoop /\ UNCHANGED <<verifyVars, orchVars, graphVars, agentVars>>
    \/ SolveWithRelaxationFinal /\ UNCHANGED <<verifyVars, orchVars, graphVars, agentVars>>

Spec == Init /\ [][Next]_vars

VerifySpecInit ==
    /\ SolverIdle
    /\ VerifyInit
    /\ OrchIdle
    /\ GraphIdle
    /\ AgentIdle

VerifySpecNext == Verify /\ UNCHANGED <<solverVars, orchVars, graphVars, agentVars>>

VerifySpec == VerifySpecInit /\ [][VerifySpecNext]_vars

OrchSpecInit ==
    /\ SolverIdle
    /\ enable_auto_correction = TRUE
    /\ VerifyIdle
    /\ OrchInit
    /\ GraphIdle
    /\ AgentIdle

OrchSpecNext ==
    \/ Run /\ UNCHANGED <<solverVars, verifyVars, graphVars, agentVars>>
    \/ DirectorLoop /\ UNCHANGED <<solverVars, verifyVars, graphVars, agentVars>>
    \/ DirectorExhausted /\ UNCHANGED <<solverVars, verifyVars, graphVars, agentVars>>
    \/ CoderLoop /\ UNCHANGED <<solverVars, verifyVars, graphVars, agentVars>>
    \/ CoderExhausted /\ UNCHANGED <<solverVars, verifyVars, graphVars, agentVars>>
    \/ RendererStart /\ UNCHANGED <<solverVars, verifyVars, graphVars, agentVars>>
    \/ RendererFinish /\ UNCHANGED <<solverVars, verifyVars, graphVars, agentVars>>

(* every await of run completes, so each enabled step is eventually taken *)
OrchSpec == OrchSpecInit /\ [][OrchSpecNext]_vars /\ WF_vars(OrchSpecNext)

GraphSpecInit ==
    /\ SolverIdle
    /\ enable_auto_correction = TRUE
    /\ VerifyIdle
    /\ OrchIdle
    /\ GraphIdle
    /\ AgentIdle

GraphSpecNext ==
    \/ AddNode /\ UNCHANGED <<solverVars, verifyVars, orchVars, agentVars>>
    \/ AddEdge /\ UNCHANGED <<solverVars, verifyVars, orchVars, agentVars>>
    \/ FromConstraintGraph /\ UNCHANGED <<solverVars, verifyVars, orchVars, agentVars>>

GraphSpec == GraphSpecInit /\ [][GraphSpecNext]_vars

BudgetSpecInit ==
    /\ BudgetInit
    /\ enable_auto_correction = TRUE
    /\ VerifyIdle
    /\ OrchIdle
    /\ GraphIdle
    /\ AgentIdle

BudgetSpecNext ==
    \/ SolveWithRelaxationLoop /\ UNCHANGED <<verifyVars, orchVars, graphVars, agentVars>>
    \/ SolveWithRelaxationFinal /\ UNCHANGED <<verifyVars, orchVars, graphVars, agentVars>>

BudgetSpec == BudgetSpecInit /\ [][BudgetSpecNext]_vars

AgentSpecInit ==
    /\ SolverIdle
    /\ enable_auto_correction = TRUE
    /\ VerifyIdle
    /\ OrchIdle
    /\ GraphIdle
    /\ AgentInit

AgentSpecNext ==
    \/ AgentGenerate /\ UNCHANGED <<solverVars, verifyVars, orchVars, graphVars>>
    \/ AgentIteration /\ UNCHANGED <<solverVars, verifyVars, orchVars, graphVars>>
    \/ AgentExhausted /\ UNCHANGED <<solverVars, verifyVars, orchVars, graphVars>>

AgentSpec == AgentSpecInit /\ [][AgentSpecNext]_vars

-----------------------------------------------------------------------------
(* Properties of solved layouts *)

Elements == layout.elements

(* the four separation relations between two solved rectangles *)
LeftOf(a, b) == a.x + a.width <= b.x
RightOf(a, b) == b.x + b.width <= a.x
Above(a, b) == a.y + a.height <= b.y
Below(a, b) == b.y + b.height <= a.y

InsideCanvas(r) ==
    /\ 0 <= r.x
    /\ 0 <= r.y
    /\ r.x + r.width <= canvas_width
    /\ r.y + r.height <= canvas_height

(* C1: whenever a solve returns success (directly with any exclusion set, or
   at any step of solve_with_relaxation), every node has a rectangle and it
   satisfies x >= 0, y >= 0, x + width <= canvas_width and
   y + height <= canvas_height. *)
C1_SolvedWithinCanvas ==
    layout.success =>
        /\ Len(Elements) = Len(nodes)
        /\ \A i \in 1..Len(Elements) : InsideCanvas(Elements[i])

(* a relaxation run that succeeded only after shrinking the nodes *)
C1_Witness ==
    /\ pc = "done"
    /\ layout.success
    /\ iteration >= 3
    /\ Len(nodes) >= 1

(* C2: in every successful solve of a graph with two or more nodes (any
   exclusion set, any relaxation step) every pair of distinct nodes is
   separated by at least one of left-of, right-of, above, below. *)
C2_PairwiseNonOverlap ==
    (layout.success /\ Len(nodes) >= 2) =>
        \A i, j \in 1..Len(Elements) :
            i # j =>
                \/ LeftOf(Elements[i], Elements[j])
                \/ RightOf(Elements[i], Elements[j])
                \/ Above(Elements[i], Elements[j])
                \/ Below(Elements[i], Elements[j])

(* two nodes solved after relaxation had dropped both relaxable tiers *)
C2_Witness ==
    /\ pc = "done"
    /\ layout.success
    /\ Len(nodes) >= 2
    /\ relaxed_levels = {AESTHETIC, STRUCTURAL}

HardOnly == \A k \in 1..Len(input_edges) : input_edges[k].priority = HARD

(* C3: with the default attempt budget, solve_with_relaxation on a graph with
   at least one node whose edges are all HARD returns success = true. *)
C3_HardOnlyAlwaysSolved ==
    (/\ pc = "done"
     /\ max_iterations = DefaultMaxIterations
     /\ Len(input_nodes) >= 1
     /\ HardOnly)
        => layout.success

(* C4: within one solve_with_relaxation call, the edges in the model of an
   attempt are a subset of the edges in the model of the attempt before. *)
C4_ActiveEdgesShrink ==
    [][(attempts >= 1 /\ attempts' = attempts + 1)
            => model_edges' \subseteq model_edges]_vars

(* a later attempt whose model kept some but not all of the graph's edges *)
C4_Witness ==
    /\ attempts >= 2
    /\ model_edges # {}
    /\ model_edges # {input_edges[k].uid : k \in 1..Len(input_edges)}

WideSingleNode ==
    /\ Len(input_nodes) = 1
    /\ input_nodes[1].fixed_width > canvas_width
    /\ max_iterations = DefaultMaxIterations

(* C10: for a graph with one node whose fixed width exceeds the canvas width,
   solve on the full constraint set fails, and solve_with_relaxation with the
   default settings succeeds with the node inside the canvas. *)
C10_WideNodeRecovered ==
    WideSingleNode =>
        /\ (pc = "solved" /\ skip_priorities = {}) => ~layout.success
        /\ pc = "done" =>
              /\ layout.success
              /\ \A i \in 1..Len(Elements) : InsideCanvas(Elements[i])

-----------------------------------------------------------------------------
(* Properties of verification reports *)

Executed(layer) == layer \in DOMAIN outcomes
Reported(layer) == layer \in DOMAIN report.layers
LaterLayers == LayerNames \ {"syntax"}

(* C5: if the syntax validator fails, verify executes none of the spatial,
   text-readability, colour-palette and rendering checks and returns a report
   holding only the 'syntax' layer, with status FAIL, action REJECT and
   overall FAIL; and a report holding any later layer holds a syntax layer
   that passed. *)
C5_SyntaxFailureStopsPipeline ==
    vpc = "returned" =>
        /\ (Executed("syntax") /\ outcomes["syntax"] # <<>>) =>
              /\ DOMAIN outcomes = {"syntax"}
              /\ DOMAIN report.layers = {"syntax"}
              /\ report.layers["syntax"].status = "fail"
              /\ report.layers["syntax"].action = "reject"
              /\ report.overall = "fail"
        /\ \A layer \in LaterLayers :
              (Reported(layer) \/ Executed(layer)) =>
                  /\ Reported("syntax")
                  /\ report.layers["syntax"].status = "pass"
                  /\ outcomes["syntax"] = <<>>

(* verify returned after its syntax validator reported an error *)
C5_Witness ==
    /\ vpc = "returned"
    /\ Executed("syntax")
    /\ outcomes["syntax"] # <<>>
    /\ Reported("syntax")

LayerPassed(layer) ==
    /\ Reported(layer)
    /\ report.layers[layer].status \in {"pass", "auto_corrected"}

(* C6: verify returns overall PASS exactly when all five layers are in the
   report with status PASS (or AUTO_CORRECTED for spatial); otherwise overall
   is FAIL. *)
C6_OverallPassIffAllLayersPass ==
    vpc = "returned" =>
        /\ report.overall \in {"pass", "fail"}
        /\ report.overall = "pass" <=> \A layer \in LayerNames : LayerPassed(layer)

(* verify returned a report in which only the last layer failed *)
C6_Witness ==
    /\ vpc = "returned"
    /\ \A layer \in LayerNames \ {"rendering"} : LayerPassed(layer)
    /\ Reported("rendering")
    /\ report.layers["rendering"].status = "fail"

-----------------------------------------------------------------------------
(* Properties of orchestrator runs *)

Returned == opc = "returned" /\ result # None
Result == result[1]

(* C7: every run returns, and throughout it director.generate has been
   called at most max_director_iterations times, coder.generate and
   verifier.verify at most max_coder_iterations times each, and the counters
   director_iterations and coder_iterations are within their maxima. *)
C7_RunTerminatesWithinBudget ==
    /\ [](/\ director_calls <= max_director_iterations
          /\ coder_calls <= max_coder_iterations
          /\ verify_calls <= max_coder_iterations
          /\ director_iterations <= max_director_iterations
          /\ coder_iterations <= max_coder_iterations)
    /\ <>(opc = "returned")

(* a run that used up both of the default budgets *)
C7_Witness ==
    /\ Returned
    /\ max_director_iterations = DefaultMaxDirectorIterations
    /\ max_coder_iterations = DefaultMaxCoderIterations
    /\ director_calls = max_director_iterations
    /\ coder_calls = max_coder_iterations
    /\ verify_calls = max_coder_iterations

CoderExhaustedResult ==
    /\ Returned
    /\ Result.errors = "SVG Coder failed to generate verified SVG"

(* C8: when the coder loop is exhausted and some iteration produced an SVG
   candidate, the result carries the most recent candidate; the result has no
   artifact only if no iteration produced one. *)
C8_ExhaustionReturnsLastCandidate ==
    CoderExhaustedResult =>
        /\ last_candidate # None => Result.svg = last_candidate
        /\ Result.svg = None => last_candidate = None

(* C9: when run returns success = true the state is COMPLETED, and when it
   returns success = false the state is FAILED. *)
C9_RunEndsInTerminalState ==
    Returned =>
        /\ Result.success => state = "completed"
        /\ ~Result.success => state = "failed"

-----------------------------------------------------------------------------
(* Properties of graph construction *)

EndpointsPresent(edge) ==
    /\ edge.source_id \in DOMAIN graph_nodes
    /\ edge.target_id \in DOMAIN graph_nodes

(* C11: add_edge with a source or target id that is not a node raises and
   leaves the nodes and the edge list as they were; and after any sequence of
   add_node, add_edge and from_constraint_graph every stored edge references
   ids that are nodes of the graph. *)
C11_EdgesReferenceNodes ==
    /\ [](\A k \in 1..Len(graph_edges) : EndpointsPresent(graph_edges[k]))
    /\ [][(graph_call'.op = "add_edge" /\ ~EndpointsPresent(graph_call'.edge))
            => (graph_call'.raised /\ UNCHANGED <<graph_nodes, graph_edges>>)]_vars

(* an add_edge that raised on a graph which already holds an edge *)
C11_Witness ==
    /\ graph_call.op = "add_edge"
    /\ graph_call.raised
    /\ Len(graph_edges) >= 1

(* C12: add_node with an id that is already in the graph fails and leaves the
   node stored under that id unchanged. *)
C12_DuplicateNodeRejected ==
    (graph_call.op = "add_node" /\ graph_call.duplicate) =>
        /\ graph_call.raised
        /\ graph_nodes[graph_call.id] = graph_call.previous[1]

ElementIds(constraint_json) ==
    {constraint_json.elements[k].id : k \in 1..Len(constraint_json.elements)}

DuplicateIds(constraint_json) ==
    \E i, j \in 1..Len(constraint_json.elements) :
        i < j /\ constraint_json.elements[i].id = constraint_json.elements[j].id

DanglingReference(constraint_json) ==
    \E k \in 1..Len(constraint_json.relationships) :
        \/ constraint_json.relationships[k].first \notin ElementIds(constraint_json)
        \/ constraint_json.relationships[k].second \notin ElementIds(constraint_json)

Containment(constraint_json) ==
    {<<constraint_json.relationships[k].first,
       constraint_json.relationships[k].second>> :
        k \in {i \in 1..Len(constraint_json.relationships) :
                  constraint_json.relationships[i].type = "containment"}}

(* pairs joined by a chain of at most n + 1 containment relationships *)
RECURSIVE Chains(_, _)
Chains(R, n) ==
    IF n = 0 THEN R
    ELSE LET C == Chains(R, n - 1)
         IN  C \cup {<<pq[1][1], pq[2][2]>> :
                        pq \in {c \in C \X R : c[1][2] = c[2][1]}}

CyclicContainment(constraint_json) ==
    \E x \in NodeIds :
        <<x, x>> \in Chains(Containment(constraint_json), Cardinality(NodeIds))

Malformed(constraint_json) ==
    \/ DuplicateIds(constraint_json)
    \/ DanglingReference(constraint_json)
    \/ CyclicContainment(constraint_json)

(* C13: from_constraint_graph given duplicate element ids, a relationship
   that references a missing element id, or cyclic containment ends with
   structural errors and returns no graph. *)
C13_MalformedInputRejected ==
    (graph_call.op = "from_constraint_graph" /\ Malformed(graph_call.input))
        => graph_call.raised

-----------------------------------------------------------------------------
(* Properties of the separation of solved rectangles *)

(* how many of the four separation relations hold between two rectangles *)
Separations(a, b) ==
    Cardinality({r \in {"left_of", "right_of", "above", "below"} :
        CASE r = "left_of" -> LeftOf(a, b)
          [] r = "right_of" -> RightOf(a, b)
          [] r = "above" -> Above(a, b)
          [] r = "below" -> Below(a, b)})

SolvedPairs ==
    {p \in (1..Len(Elements)) \X (1..Len(Elements)) : p[1] # p[2]}

(* C14 as stated: in every successful solve of two or more nodes every pair
   of distinct nodes satisfies exactly one of left-of, right-of, above,
   below. *)
C14_ExactlyOneSeparation ==
    (layout.success /\ Len(nodes) >= 2) =>
        \A p \in SolvedPairs : Separations(Elements[p[1]], Elements[p[2]]) = 1

(* C14, amended: in every successful solve of two or more nodes every pair of
   distinct nodes satisfies one or more of the four relations; two nodes of
   positive width are never both left-of and right-of each other, and two
   nodes of positive height never both above and below each other. *)
C14_AtLeastOneSeparation ==
    (layout.success /\ Len(nodes) >= 2) =>
        \A p \in SolvedPairs :
            LET a == Elements[p[1]]
                b == Elements[p[2]]
            IN  /\ Separations(a, b) >= 1
                /\ (a.width > 0 /\ b.width > 0) => ~(LeftOf(a, b) /\ RightOf(a, b))
                /\ (a.height > 0 /\ b.height > 0) => ~(Above(a, b) /\ Below(a, b))

(* a solved pair placed diagonally: two of the relations hold at once *)
C14_Witness ==
    /\ layout.success
    /\ Len(nodes) >= 2
    /\ \E p \in SolvedPairs : Separations(Elements[p[1]], Elements[p[2]]) = 2

-----------------------------------------------------------------------------
(* Properties of the remediation text *)

LayerOrder ==
    <<"syntax", "spatial", "text_readability", "color_palette", "rendering">>

FailedLayers ==
    SelectSeq(LayerOrder,
              LAMBDA layer : Reported(layer) /\ report.layers[layer].status = "fail")

FailedPrompts ==
    [k \in 1..Len(FailedLayers) |-> report.layers[FailedLayers[k]].refinement_prompt]

(* C15: whenever verify returns overall FAIL, the remediation text is
   non-empty and report.refinement_prompts holds the refinement prompt of
   every failed layer, one per failed layer, in layer order. *)
C15_FailReportCarriesEveryPrompt ==
    (vpc = "returned" /\ report.overall = "fail") =>
        /\ get_refinement_prompt(report).message # ""
        /\ report.refinement_prompts = FailedPrompts

-----------------------------------------------------------------------------
(* Properties of the oscillation guard *)

(* C16: after a failed verification the SAFE FALLBACK instruction is appended
   to the feedback exactly when the remediation text of this failure and of
   the two failed verifications before it are identical; it is not appended
   on a first occurrence, on a single repeat, or after a text that differs
   from the one before. *)
C16_FallbackAfterThreeIdentical ==
    recent_failures # <<>> =>
        (fallback_appended <=>
            /\ Len(recent_failures) = 3
            /\ recent_failures[1] = recent_failures[2]
            /\ recent_failures[2] = recent_failures[3])

(* the instruction was appended after a third identical failure *)
C16_Witness ==
    /\ fallback_appended
    /\ Len(recent_failures) = 3
    /\ feedback # None
    /\ feedback[1].safe_fallback

-----------------------------------------------------------------------------
(* Properties of ConstraintSolver.solve(skip_priorities) *)

(* C17: a direct ConstraintSolver.solve(skip_priorities = S) leaves
   graph.edges as it was (same edges, order, margins, priorities), whether the
   solve succeeds or fails, and the model of that attempt holds exactly the
   edges whose priority is not in S. *)
C17_SkipLeavesEdgesUntouched ==
    [][pc' = "solved" =>
          /\ edges' = edges
          /\ model_edges' =
                {edges[i].uid :
                    i \in {j \in 1..Len(edges) :
                            edges[j].priority \notin skip_priorities'}}]_vars

(* a failed direct solve that skipped one stored edge and modelled another *)
C17_Witness ==
    /\ pc = "solved"
    /\ ~layout.success
    /\ edges = input_edges
    /\ \E i, j \in 1..Len(edges) :
          /\ edges[i].priority \in skip_priorities
          /\ edges[i].uid \notin model_edges
          /\ edges[j].priority \notin skip_priorities
          /\ edges[j].uid \in model_edges

-----------------------------------------------------------------------------
(* Properties of the attempts count *)

(* C18: when solve_with_relaxation has returned, RelaxationResult.iterations
   equals the number of ConstraintSolver.solve invocations the call made. *)
C18_IterationsCountSolves ==
    pc = "done" => result_iterations = attempts

-----------------------------------------------------------------------------
(* Properties of DesignRefinementAgent.generate *)

(* C19: when generate has ended, the LLM answered every call, at least one
   iteration produced an SVG that was verified and no verification passed,
   generate has returned that most recent SVG with overall 'partial'; it has
   raised DesignGenerationError only if no iteration produced an SVG. *)
C19_ExhaustionReturnsLatestVerified ==
    (/\ apc \in {"returned", "raised"}
     /\ agent_outcome[1].error # "LLMError") =>
        /\ (/\ verified # <<>>
            /\ \A i \in 1..Len(verified) : verified[i].overall # "pass") =>
                /\ agent_outcome[1].kind = "return"
                /\ agent_outcome[1].overall = "partial"
                /\ agent_outcome[1].svg = Some(verified[Len(verified)].svg)
        /\ agent_outcome[1].error = "DesignGenerationError" => verified = <<>>

-----------------------------------------------------------------------------
(* Properties of the order of degradations *)

(* the degradations in the order the specification lists them *)
DegradationOrder ==
    << "Relaxed aesthetic constraints (padding, alignment)",
       "Relaxed structural constraints (spacing relationships)",
       "Reduced element sizes by 20%",
       "Reduced all margins by 50%",
       "Applied minimal fallback layout" >>

(* the graph after the first k degradations of DegradationOrder *)
DegradedNodes(k) ==
    IF k < 3 THEN input_nodes
    ELSE IF k < 5 THEN reduce_element_sizes(input_nodes)
    ELSE apply_minimal_layout_nodes(reduce_element_sizes(input_nodes))

DegradedEdges(k) ==
    IF k < 4 THEN input_edges
    ELSE IF k < 5 THEN reduce_margins(input_edges)
    ELSE apply_minimal_layout_edges(reduce_margins(input_edges))

DegradedLevels(k) ==
    (IF k >= 1 THEN {AESTHETIC} ELSE {}) \cup (IF k >= 2 THEN {STRUCTURAL} ELSE {})

(* C20: during and after solve_with_relaxation the adjustments list is a
   prefix of (drop AESTHETIC, drop STRUCTURAL, shrink, halve margins, minimal
   fallback); the k-th degradation is there only after k failed attempts, the
   graph and the relaxed tiers are exactly what those k degradations make of
   the input, each degradation is followed by exactly one solve, and the
   first attempt runs on the full constraint set. *)
C20_DegradationsInOrder ==
    pc \in {"loop", "done"} =>
        LET k == Len(adjustments)
        IN  /\ k <= Len(DegradationOrder)
            /\ adjustments = SubSeq(DegradationOrder, 1, k)
            /\ relaxed_levels = DegradedLevels(k)
            /\ nodes = DegradedNodes(k)
            /\ edges = DegradedEdges(k)
            /\ pc = "loop" => (attempts = k /\ ~layout.success)
            /\ pc = "done" => (/\ attempts = k + 1
                               /\ skip_priorities = DegradedLevels(k)
                               /\ layout.success \/ k = Len(DegradationOrder))

(* all five degradations were applied and the sixth attempt succeeded *)
C20_Witness ==
    /\ pc = "done"
    /\ adjustments = DegradationOrder
    /\ attempts = 6
    /\ layout.success

-----------------------------------------------------------------------------
(* Properties of SolvedLayout.relaxed_constraints *)

(* C21: when a direct solve(skip_priorities = S) succeeds on a graph with an
   edge whose priority is in S, relaxed_constraints holds the description of
   every edge left out of the model and of nothing that was in the model. *)
C21_RelaxedConstraintsListOmittedEdges ==
    (/\ pc = "solved"
     /\ layout.success
     /\ \E i \in 1..Len(edges) : edges[i].priority \in skip_priorities) =>
        relaxed_constraints(skip_priorities) =
            {Description("edge", edges[i].uid, 0) :
                i \in {j \in 1..Len(edges) :
                        edges[j].priority \in skip_priorities}}

-----------------------------------------------------------------------------
(* Properties of edges in solved layouts *)

(* the stored edges that were part of the model of the last attempt *)
ActiveEdges == {i \in 1..Len(edges) : edges[i].uid \in model_edges}

Source(i) == layout.elements[edges[i].source_id]
Target(i) == layout.elements[edges[i].target_id]

(* C22: in every successful solve each alignment edge whose tier is not
   excluded gives source and target the matching coordinate: ALIGN_LEFT x,
   ALIGN_RIGHT x+width, ALIGN_TOP y, ALIGN_BOTTOM y+height, ALIGN_CENTER_X
   2x+width, ALIGN_CENTER_Y 2y+height. *)
C22_AlignmentEdgesHold ==
    (pc \in {"solved", "done"} /\ layout.success) =>
        \A i \in ActiveEdges :
            LET a == Source(i)
                b == Target(i)
                type == edges[i].edge_type
            IN  /\ type = "align_left" => a.x = b.x
                /\ type = "align_right" => a.x + a.width = b.x + b.width
                /\ type = "align_top" => a.y = b.y
                /\ type = "align_bottom" => a.y + a.height = b.y + b.height
                /\ type = "align_center_x" =>
                        2 * a.x + a.width = 2 * b.x + b.width
                /\ type = "align_center_y" =>
                        2 * a.y + a.height = 2 * b.y + b.height

(* C23: in every successful solve each relational edge (source, target,
   margin m) whose tier is not excluded holds: BELOW source.y+source.height+m
   <= target.y; ABOVE target.y+target.height+m <= source.y; RIGHT_OF
   source.x+source.width+m <= target.x; LEFT_OF target.x+target.width+m <=
   source.x. *)
C23_RelationalEdgesHold ==
    (pc \in {"solved", "done"} /\ layout.success) =>
        \A i \in ActiveEdges :
            LET a == Source(i)
                b == Target(i)
                m == edges[i].value
                type == edges[i].edge_type
            IN  /\ type = "below" => a.y + a.height + m <= b.y
                /\ type = "above" => b.y + b.height + m <= a.y
                /\ type = "right_of" => a.x + a.width + m <= b.x
                /\ type = "left_of" => b.x + b.width + m <= a.x

(* a successful solve whose model held a relational edge with a positive
   margin *)
C23_Witness ==
    /\ pc \in {"solved", "done"}
    /\ layout.success
    /\ \E i \in ActiveEdges :
          /\ edges[i].edge_type \in {"below", "above", "right_of", "left_of"}
          /\ edges[i].value > 0

-----------------------------------------------------------------------------
(* Properties of the director loop *)

(* C25: _run_director_loop returns a constraint graph, and run goes on to the
   coder, only if the layout solver's result for that graph has success =
   true. *)
C25_GraphReturnedOnlyIfFeasible ==
    opc \in {"coder_loop", "renderer", "rendering"} => solved = Some(TRUE)

-----------------------------------------------------------------------------
(* Properties of structural validation *)

(* LayoutGraph.validate: the errors it reports for a graph *)
validate(ns, es, cw, ch) ==
    LET containment_edges ==
            {<<es[i].source_id, es[i].target_id>> :
                i \in {j \in 1..Len(es) : es[j].edge_type = "inside"}}
        cyclic == \E x \in 1..Len(ns) :
                      <<x, x>> \in Chains(containment_edges, Len(ns))
    IN  (IF containment_edges # {} /\ cyclic
         THEN {Description("circular_containment", 0, 0)} ELSE {})
        \cup {Description("fixed_width_exceeds_canvas", i, 0) :
                i \in {j \in 1..Len(ns) :
                        ns[j].fixed_width # 0 /\ ns[j].fixed_width > cw}}
        \cup {Description("fixed_height_exceeds_canvas", i, 0) :
                i \in {j \in 1..Len(ns) :
                        ns[j].fixed_height # 0 /\ ns[j].fixed_height > ch}}

(* C26: ConstraintSolver.solve is never invoked on a graph for which
   LayoutGraph.validate reports an error: once an attempt has been made, the
   graph that was handed in validates without errors. *)
C26_NoSolveOnInvalidGraph ==
    attempts > 0 =>
        validate(input_nodes, input_edges, canvas_width, canvas_height) = {}

-----------------------------------------------------------------------------
(* Properties of the margin reduction *)

(* C27: right after _reduce_margins no edge has a larger margin than before
   the step, and an edge whose margin was 0 still has margin 0. *)
C27_MarginsNeverIncrease ==
    (pc \in {"loop", "done"} /\ Len(adjustments) = 4) =>
        \A i \in 1..Len(edges) :
            /\ edges[i].value <= input_edges[i].value
            /\ input_edges[i].value = 0 => edges[i].value = 0

-----------------------------------------------------------------------------
(* Properties of containment edges *)

(* the active INSIDE edges between two distinct nodes *)
ActiveContainment ==
    {i \in ActiveEdges :
        /\ edges[i].edge_type = "inside"
        /\ edges[i].source_id # edges[i].target_id}

(* C28: no successful SolvedLayout, of a direct solve or of an attempt of
   solve_with_relaxation, comes from a model that holds an INSIDE edge between
   two distinct nodes: with the non-overlap constraint on the same pair such
   a model has no solution. *)
C28_ActiveContainmentInfeasible ==
    (pc \in {"solved", "done"} /\ ActiveContainment # {}) => ~layout.success

(* a failed direct solve whose model held an INSIDE edge, on a canvas that
   has room for the child inside the container *)
C28_Witness ==
    /\ pc = "solved"
    /\ ~layout.success
    /\ ActiveContainment # {}
    /\ Len(edges) = 1
    /\ \A i \in 1..Len(nodes) :
          nodes[i].fixed_width = 0 /\ nodes[i].min_width = 0

-----------------------------------------------------------------------------
(* Properties of the iteration budget *)

FallbackStep == "Applied minimal fallback layout"

(* the positions of adjustments at which the minimal fallback was applied *)
FallbackApplications == {k \in 1..Len(adjustments) : adjustments[k] = FallbackStep}

(* C29: solve_with_relaxation invokes the solver at most max_iterations + 1
   times; the minimal fallback is applied only as the fifth or a later
   degradation, that is after five consecutive failed attempts; with
   max_iterations <= 4 it is never applied and the graph keeps its own or its
   shrunk nodes; with max_iterations = 5 it is applied at most once, and
   exactly once, as the last step before the final attempt, when all six
   attempts were made. *)
C29_FallbackOnlyAfterFiveFailures ==
    /\ attempts <= max_iterations + 1
    /\ \A k \in FallbackApplications : k >= 5 /\ attempts >= 5
    /\ max_iterations <= 4 => FallbackApplications = {}
    /\ FallbackApplications = {} =>
            nodes \in {input_nodes, reduce_element_sizes(input_nodes)}
    /\ max_iterations = 5 =>
            /\ Cardinality(FallbackApplications) <= 1
            /\ (pc = "done" /\ attempts = 6) =>
                    FallbackApplications = {Len(adjustments)}

(* a call with max_iterations = 4 that made all its attempts, never applied
   the fallback and returned success = false *)
C29_Witness ==
    /\ pc = "done"
    /\ max_iterations = 4
    /\ attempts = 5
    /\ FallbackApplications = {}
    /\ ~layout.success

-----------------------------------------------------------------------------
(* Properties of the renderer phase *)

(* the renderer is running, or about to run, on an SVG that passed
   verification after the director loop returned a graph; a successful result
   carries such an SVG and leaves the state COMPLETED *)
RendererOnlyOnVerified ==
    /\ (opc \in {"renderer", "rendering"} \/ state \in {"renderer", "completed"}) =>
            /\ last_candidate # None
            /\ last_candidate[1] \in verified_svgs
            /\ solved # None
            /\ director_calls >= 1
            /\ verify_calls >= 1
    /\ (result # None /\ result[1].success) =>
            /\ state = "completed"
            /\ result[1].svg = last_candidate
            /\ result[1].svg[1] \in verified_svgs

(* C30: in run the renderer is invoked only with an SVG for which verify
   returned overall PASS in the same run and only after the director loop
   returned a constraint graph; COMPLETED is entered only from RENDERER; so
   success = true implies that the returned SVG passed verification. *)
C30_RendererOnlyAfterVerification ==
    /\ []RendererOnlyOnVerified
    /\ [][state' = "completed" => state \in {"renderer", "completed"}]_vars

(* run returned success with the verified SVG *)
C30_Witness ==
    /\ opc = "returned"
    /\ result[1].success
    /\ state = "completed"
    /\ result[1].svg[1] \in verified_svgs

====
